---- MODULE Spec2Model ----
(***************************************************************************)
(* Model of backend/app.py of TimeTagger: the row formatter                *)
(* (format_annotations), the append writer (write_rows, guarded by LOCK)   *)
(* and the request handler (save_annotations).                             *)
(*                                                                         *)
(* Python strings are sequences of atoms (one-character TLA+ strings, or   *)
(* a multi-character atom for the fixed header names).  JSON values are    *)
(* records [k, s, n]: k is the kind, s the characters of a string, n a     *)
(* number in thousandths.  A float is a JSON value of kind "num" or "nan". *)
(***************************************************************************)
EXTENDS Integers, Sequences, FiniteSets, TLC

\* ------------------------------------------------------------------ bounds
MaxAnn == 3        \* longest annotations list drawn for format_annotations
NumReq == 2        \* number of concurrent requests
LineChunks == 2    \* number of successive byte chunks a written line reaches the file in

\* ------------------------------------------------------------ JSON values
JStr(s) == [k |-> "str", s |-> s, n |-> 0]
JNum(n) == [k |-> "num", s |-> <<>>, n |-> n]
JNull == [k |-> "null", s |-> <<>>, n |-> 0]
JAbsent == [k |-> "absent", s |-> <<>>, n |-> 0]
JNaN == [k |-> "nan", s |-> <<>>, n |-> 0]
JBigInt == [k |-> "bigint", s |-> <<>>, n |-> 0]

\* dict.get(key, default): the default replaces a missing key only
Get(v, default) == IF v.k = "absent" THEN default ELSE v

\* Python truthiness of a JSON value, as used by `x or ""`
Truthy(v) ==
    CASE v.k = "str" -> v.s # <<>>
      [] v.k = "num" -> v.n # 0
      [] v.k = "null" -> FALSE
      [] v.k = "absent" -> FALSE
      [] OTHER -> TRUE

\* --------------------------------------------------------- str.strip()
IsSpace(c) == c = " "

RECURSIVE lstrip(_)
lstrip(s) ==
    IF s # <<>> /\ IsSpace(Head(s)) THEN lstrip(Tail(s)) ELSE s

RECURSIVE rstrip(_)
rstrip(s) ==
    IF s # <<>> /\ IsSpace(s[Len(s)]) THEN rstrip(SubSeq(s, 1, Len(s) - 1)) ELSE s

strip(s) == rstrip(lstrip(s))

\* ------------------------------------------------------------- float(x)
Digits == <<"0", "1", "2", "3", "4", "5", "6", "7", "8", "9">>

IsDigit(c) == \E i \in 1..Len(Digits) : Digits[i] = c

DigitVal(c) == (CHOOSE i \in 1..Len(Digits) : Digits[i] = c) - 1

RECURSIVE IntOfDigits(_)
IntOfDigits(s) ==
    IF s = <<>> THEN 0
    ELSE 10 * IntOfDigits(SubSeq(s, 1, Len(s) - 1)) + DigitVal(s[Len(s)])

\* float(str): surrounding whitespace is ignored, "nan" is accepted, a run of
\* digits is a number, anything else is a ValueError
FloatOfStr(s) ==
    LET u == strip(s) IN
    IF u = <<"n", "a", "n">> THEN [exc |-> "none", val |-> JNaN]
    ELSE IF u # <<>> /\ \A i \in 1..Len(u) : IsDigit(u[i])
         THEN [exc |-> "none", val |-> JNum(1000 * IntOfDigits(u))]
         ELSE [exc |-> "ValueError", val |-> JNaN]

\* float(v) for a JSON value v
Float(v) ==
    CASE v.k = "num" -> [exc |-> "none", val |-> v]
      [] v.k = "nan" -> [exc |-> "none", val |-> JNaN]
      [] v.k = "str" -> FloatOfStr(v.s)
      [] v.k = "bigint" -> [exc |-> "OverflowError", val |-> JNaN]
      [] OTHER -> [exc |-> "TypeError", val |-> JNaN]

\* a < b on floats: every comparison with NaN is false
FloatLt(a, b) == a.k = "num" /\ b.k = "num" /\ a.n < b.n

\* ------------------------------------------------------- f"{t:.2f}"
\* t is in thousandths; the input domains hold no value halfway between two
\* hundredths, where the binary float would decide the rounding
RECURSIVE DigitsOfInt(_)
DigitsOfInt(n) ==
    IF n < 10 THEN <<Digits[n + 1]>>
    ELSE DigitsOfInt(n \div 10) \o <<Digits[(n % 10) + 1]>>

Format2f(t) ==
    IF t.k = "nan" THEN <<"n", "a", "n">>
    ELSE LET h == (t.n + 5) \div 10 IN
         DigitsOfInt(h \div 100) \o <<".">>
             \o <<Digits[((h \div 10) % 10) + 1], Digits[(h % 10) + 1]>>

\* ------------------------------------------- list.sort(key=lambda x: x[0])
\* CPython's sort of a short list: the leading run is found (and reversed
\* when strictly descending), the rest is placed by binary insertion.
RECURSIVE RunAsc(_, _)
RunAsc(lst, n) ==
    IF n < Len(lst) /\ ~FloatLt(lst[n + 1].t, lst[n].t) THEN RunAsc(lst, n + 1) ELSE n

RECURSIVE RunDesc(_, _)
RunDesc(lst, n) ==
    IF n < Len(lst) /\ FloatLt(lst[n + 1].t, lst[n].t) THEN RunDesc(lst, n + 1) ELSE n

Reverse(s) == [i \in 1..Len(s) |-> s[Len(s) + 1 - i]]

RECURSIVE BinaryPos(_, _, _, _)
BinaryPos(lst, pivot, l, r) ==
    IF l >= r THEN l
    ELSE LET p == l + ((r - l) \div 2) IN
         IF FloatLt(pivot.t, lst[p].t) THEN BinaryPos(lst, pivot, l, p)
         ELSE BinaryPos(lst, pivot, p + 1, r)

RECURSIVE BinarySort(_, _)
BinarySort(lst, start) ==
    IF start > Len(lst) THEN lst
    ELSE LET pivot == lst[start]
             l == BinaryPos(lst, pivot, 1, start)
             moved == SubSeq(lst, 1, l - 1) \o <<pivot>> \o SubSeq(lst, l, start - 1)
                          \o SubSeq(lst, start + 1, Len(lst))
         IN BinarySort(moved, start + 1)

SortByTime(lst) ==
    IF Len(lst) < 2 THEN lst
    ELSE IF FloatLt(lst[2].t, lst[1].t)
         THEN LET n == RunDesc(lst, 2) IN
              BinarySort(Reverse(SubSeq(lst, 1, n)) \o SubSeq(lst, n + 1, Len(lst)), n + 1)
         ELSE BinarySort(lst, RunAsc(lst, 2) + 1)

\* ------------------------------------------------------ format_annotations
\* mutant of GroupedAppend: a new group is put in front of the older ones
GroupedAppend_Front(grouped, fm, pair) ==
    IF \E i \in 1..Len(grouped) : grouped[i].key = fm
    THEN [i \in 1..Len(grouped) |->
             IF grouped[i].key = fm
             THEN [key |-> fm, lst |-> Append(grouped[i].lst, pair)]
             ELSE grouped[i]]
    ELSE <<[key |-> fm, lst |-> <<pair>>]>> \o grouped

\* grouped is the defaultdict(list): a sequence of [key, lst] in insertion order
GroupedAppend(grouped, fm, pair) ==
    IF \E i \in 1..Len(grouped) : grouped[i].key = fm
    THEN [i \in 1..Len(grouped) |->
             IF grouped[i].key = fm
             THEN [key |-> fm, lst |-> Append(grouped[i].lst, pair)]
             ELSE grouped[i]]
    ELSE Append(grouped, [key |-> fm, lst |-> <<pair>>])

\* the `for item in ann` loop from item i on; exc names the exception that
\* leaves the loop, "none" when it runs to the end
RECURSIVE GroupLoop(_, _, _)
GroupLoop(items, i, grouped) ==
    IF i > Len(items) THEN [exc |-> "none", grouped |-> grouped]
    ELSE LET item == items[i] IN
         IF item.k # "obj" THEN [exc |-> "AttributeError", grouped |-> grouped]
         ELSE LET got == Get(item.fmItem, JNull)
                  fmv == IF Truthy(got) THEN got ELSE JStr(<<>>)
                  tpv == Get(item.type, JStr(<<>>))
                  f == Float(Get(item.time, JNum(0)))
              IN IF fmv.k # "str" THEN [exc |-> "AttributeError", grouped |-> grouped]
                 ELSE IF tpv.k # "str" THEN [exc |-> "AttributeError", grouped |-> grouped]
                 ELSE IF f.exc \in {"TypeError", "ValueError"}
                      THEN GroupLoop(items, i + 1, grouped)
                 ELSE IF f.exc # "none" THEN [exc |-> f.exc, grouped |-> grouped]
                 ELSE GroupLoop(items, i + 1,
                          GroupedAppend(grouped, strip(fmv.s),
                                        [t |-> f.val, tp |-> strip(tpv.s)]))

\* ",".join(f"{tp}:{t:.2f}" for t, tp in lst)
RECURSIVE JoinTimes(_)
JoinTimes(lst) ==
    IF lst = <<>> THEN <<>>
    ELSE LET one == lst[Len(lst)].tp \o <<":">> \o Format2f(lst[Len(lst)].t) IN
         IF Len(lst) = 1 THEN one
         ELSE JoinTimes(SubSeq(lst, 1, Len(lst) - 1)) \o <<",">> \o one

BuildRows(video_path, grouped) ==
    [g \in 1..Len(grouped) |->
        <<video_path, grouped[g].key, JoinTimes(SortByTime(grouped[g].lst))>>]

\* format_annotations(payload): rows is the returned list when exc = "none"
format_annotations(payload) ==
    IF payload.k # "obj" THEN [exc |-> "AttributeError", rows |-> <<>>]
    ELSE LET vp == Get(payload.video_path, JStr(<<>>))
             ann == payload.annotations
         IN IF vp.k # "str" THEN [exc |-> "AttributeError", rows |-> <<>>]
            ELSE IF ann.k \notin {"absent", "list", "str"}
                 THEN [exc |-> "TypeError", rows |-> <<>>]
            ELSE LET loop == GroupLoop(ann.items, 1, <<>>) IN
                 IF loop.exc # "none" THEN [exc |-> loop.exc, rows |-> <<>>]
                 ELSE [exc |-> "none", rows |-> BuildRows(strip(vp.s), loop.grouped)]

\* ------------------------------------------------------------ input domains
Entry(fm, tp, t) == [k |-> "obj", fmItem |-> fm, type |-> tp, time |-> t]

\* an annotations item that is not a JSON object (a number, a character of a string)
NonObject == [k |-> "other", fmItem |-> JAbsent, type |-> JAbsent, time |-> JAbsent]

\* entries of the documented shape {time: number, type: string, fmItem: string}
WellFormedEntries ==
    { Entry(JStr(fm), JStr(tp), JNum(t)) :
        fm \in {<<" ", "a", " ">>, <<"b">>},
        tp \in {<<"x">>, <<"y", " ">>},
        t \in {1004, 2000} }

\* entries with one field off the documented shape
OddEntries ==
    { Entry(JStr(<<"c">>), JStr(<<"x">>), JStr(<<"z", "z">>)),
      Entry(JStr(<<"b">>), JStr(<<"x">>), JNull),
      Entry(JStr(<<"a">>), JStr(<<"n">>), JStr(<<"n", "a", "n">>)),
      Entry(JStr(<<"a">>), JStr(<<"x">>), JStr(<<" ", "1">>)),
      Entry(JStr(<<"a">>), JStr(<<"x">>), JBigInt),
      Entry(JStr(<<"a">>), JAbsent, JAbsent),
      Entry(JStr(<<"a">>), JNull, JNum(1004)),
      Entry(JNull, JStr(<<"x">>), JNum(1004)),
      Entry(JNum(3000), JStr(<<"x">>), JNum(1004)),
      NonObject }

Entries == WellFormedEntries \cup OddEntries

RECURSIVE SeqsUpTo(_, _)
SeqsUpTo(S, n) ==
    IF n = 0 THEN {<<>>}
    ELSE LET shorter == SeqsUpTo(S, n - 1) IN
         shorter \cup {Append(q, e) : q \in {x \in shorter : Len(x) = n - 1}, e \in S}

List(items) == [k |-> "list", items |-> items]

AnnotationValues ==
    {List(items) : items \in SeqsUpTo(Entries, MaxAnn)}
        \cup { [k |-> "absent", items |-> <<>>],
               [k |-> "null", items |-> <<>>],
               [k |-> "num", items |-> <<>>],
               [k |-> "str", items |-> <<>>],
               [k |-> "str", items |-> <<NonObject>>] }

Object(vp, ann) == [k |-> "obj", video_path |-> vp, annotations |-> ann]

\* a JSON body that is a non-empty array instead of an object
ArrayBody == [k |-> "array", video_path |-> JAbsent, annotations |-> [k |-> "absent", items |-> <<>>]]

Payloads ==
    {Object(JStr(<<" ", "v">>), ann) : ann \in AnnotationValues}
        \cup {Object(vp, List(<<e>>)) : vp \in {JAbsent, JNum(5000), JNull}, e \in WellFormedEntries}
        \cup {ArrayBody}

\* ------------------------------------------------------------ configuration
CSV_HEADER == << <<"video_path">>, <<"fm_item">>, <<"times">> >>
CSV_DELIMITER == ";"

\* the csv module's line terminator, one atom
LineTerminator == "\r\n"

\* --------------------------------------------------------------- the state
Requests == 1..NumReq

VARIABLES
    payload,    \* SpecF: the payload handed to format_annotations
    result,     \* SpecF: what format_annotations did with it
    pc,         \* per request: position in save_annotations / write_rows
    body,       \* per request: the JSON body received (NoBody while none)
    rows,       \* per request: the rows format_annotations returned
    new_file,   \* per request: write_rows' local new_file
    line,       \* per request: index of the row being written
    part,       \* per request: index of the chunk of the line being written
    exc,        \* per request: an OSError is propagating out of write_rows
    resp,       \* per request: the response sent ("" while none)
    LOCK,       \* 0 when free, else the request holding it
    exists,     \* CSV_PATH.exists()
    file,       \* the content of CSV_PATH, a sequence of atoms
    author      \* history: author[i] is the request that wrote file[i]

vars == <<payload, result, pc, body, rows, new_file, line, part, exc, resp, LOCK, exists, file, author>>
fvars == <<payload, result>>
svars == <<pc, body, rows, new_file, line, part, exc, resp, LOCK, exists, file, author>>

Pending == [exc |-> "pending", rows |-> <<>>]

NoBody == [k |-> "none", video_path |-> JAbsent, annotations |-> [k |-> "absent", items |-> <<>>]]

\* a body get_json(silent=True) gives None for
NullBody == [k |-> "null", video_path |-> JAbsent, annotations |-> [k |-> "absent", items |-> <<>>]]

ServerInit ==
    /\ pc = [r \in Requests |-> "idle"]
    /\ body = [r \in Requests |-> NoBody]
    /\ rows = [r \in Requests |-> <<>>]
    /\ new_file = [r \in Requests |-> FALSE]
    /\ line = [r \in Requests |-> 0]
    /\ part = [r \in Requests |-> 0]
    /\ exc = [r \in Requests |-> FALSE]
    /\ resp = [r \in Requests |-> ""]
    /\ LOCK = 0
    /\ exists = FALSE
    /\ file = <<>>
    /\ author = <<>>

\* ------------------------------------- the formatter on its own (SpecF)
InitF ==
    /\ payload \in Payloads
    /\ result = Pending
    /\ ServerInit

Format ==
    /\ result = Pending
    /\ result' = format_annotations(payload)
    /\ UNCHANGED <<payload, svars>>

NextF == Format

SpecF == InitF /\ [][NextF]_vars

\* -------------------------------------------- properties of the formatter
Returned == result # Pending /\ result.exc = "none"

Items == payload.annotations.items

\* the item's time is one float() turns into a number
Coercible(e) == Float(Get(e.time, JNum(0))).exc = "none"

\* the whitespace-trimmed fmItem of an entry, missing/null being the empty string
TrimmedFm(e) == IF e.fmItem.k = "str" THEN strip(e.fmItem.s) ELSE <<>>

ListOfObjects ==
    /\ payload.k = "obj"
    /\ payload.annotations.k = "list"
    /\ \A i \in 1..Len(Items) : Items[i].k = "obj"

\* positions of the kept entries of group key, in input order
KeptOf(key) == {i \in 1..Len(Items) : Coercible(Items[i]) /\ TrimmedFm(Items[i]) = key}

FirstKept(key) == CHOOSE i \in KeptOf(key) : \A j \in KeptOf(key) : i <= j

TimeOf(i) == Float(Get(Items[i].time, JNum(0))).val

PairOf(i) == [t |-> TimeOf(i), tp |-> strip(Get(Items[i].type, JStr(<<>>)).s)]

Orderings(S) ==
    {q \in [1..Cardinality(S) -> S] : \A i, j \in 1..Cardinality(S) : i # j => q[i] # q[j]}

\* C3: format_annotations never raises, whatever the payload; annotations of
\* the wrong shape give zero rows.
C3_NeverRaises ==
    result # Pending =>
        /\ result.exc = "none"
        /\ (payload.k = "obj" /\ payload.annotations.k # "list" => result.rows = <<>>)

\* the fields other than time have their documented types
DocumentedStrings ==
    /\ Get(payload.video_path, JStr(<<>>)).k = "str"
    /\ \A i \in 1..Len(Items) :
           /\ Items[i].fmItem.k \in {"str", "null", "absent"}
           /\ Items[i].type.k \in {"str", "absent"}

\* C4: for a payload whose annotations are a list of objects, the number of
\* rows is the number of distinct trimmed fmItem values among the entries with
\* a coercible time; an entry with another time is dropped and the rest still
\* produce their rows.  Stated for the payloads whose other fields have their
\* documented types, where the time alone decides.
C4_RowCount ==
    result # Pending /\ ListOfObjects /\ DocumentedStrings =>
        /\ result.exc = "none"
        /\ Len(result.rows) =
               Cardinality({TrimmedFm(Items[i]) : i \in {j \in 1..Len(Items) : Coercible(Items[j])}})

\* C5: in every returned row the times field lists each (type, time) pair of
\* the group once, no pair before one of smaller time, pairs of equal time in
\* input order.
C5_SortedStable ==
    Returned =>
        \A g \in 1..Len(result.rows) :
            LET S == KeptOf(result.rows[g][2]) IN
            \E q \in Orderings(S) :
                /\ result.rows[g][3] = JoinTimes([i \in 1..Cardinality(S) |-> PairOf(q[i])])
                /\ \A i, j \in 1..Cardinality(S) :
                       i < j => /\ ~FloatLt(TimeOf(q[j]), TimeOf(q[i]))
                                /\ (TimeOf(q[i]) = TimeOf(q[j]) => q[i] < q[j])

\* C6: the returned rows are in the order in which their groups first occur
\* among the kept entries of the input, one row per group.
C6_FirstSeenOrder ==
    Returned =>
        /\ \A g \in 1..Len(result.rows) : KeptOf(result.rows[g][2]) # {}
        /\ \A g, h \in 1..Len(result.rows) :
               g < h <=> FirstKept(result.rows[g][2]) < FirstKept(result.rows[h][2])

\* a group whose first entry was dropped for its time comes after a group
\* that was seen later but kept first
C6_Witness ==
    /\ Returned
    /\ Len(result.rows) >= 2
    /\ Len(Items) >= 3
    /\ ~Coercible(Items[1])
    /\ TrimmedFm(Items[1]) = result.rows[2][2]

\* ----------------------------------------------------------- csv.writer
\* writer.writerow(row): the fields joined by the delimiter, then the line
\* terminator.  No field of the modelled inputs holds a delimiter, a quote or
\* a line break, so no field is quoted.
CsvLine(row) ==
    row[1] \o <<CSV_DELIMITER>> \o row[2] \o <<CSV_DELIMITER>> \o row[3] \o <<LineTerminator>>

\* the k-th of the LineChunks chunks in which the bytes of a line reach the file
Chunk(bytes, k) ==
    SubSeq(bytes, (((k - 1) * Len(bytes)) \div LineChunks) + 1, (k * Len(bytes)) \div LineChunks)

\* ------------------------------------------------------ request bodies
VideoOf(r) == <<"v", Digits[r + 1]>>

EntryA == Entry(JStr(<<"a">>), JStr(<<"x">>), JNum(2000))
EntryB == Entry(JStr(<<"b">>), JStr(<<"y">>), JNum(1004))
EntryZ == Entry(JStr(<<"a">>), JStr(<<"x">>), JStr(<<"z", "z">>))

\* the bodies request r may carry: no annotation, only a dropped one, two
\* rows (and a dropped entry), annotations of the wrong shape, no usable JSON
Bodies(r) ==
    {Object(JStr(VideoOf(r)), List(items)) :
         items \in {<<>>, <<EntryZ>>, <<EntryA, EntryZ, EntryB>>}}
        \cup {Object(JStr(VideoOf(r)), [k |-> "null", items |-> <<>>]), NullBody}

\* `request.get_json(silent=True) or {}`
OrEmpty(b) ==
    IF b.k = "null" THEN Object(JAbsent, [k |-> "absent", items |-> <<>>]) ELSE b

\* --------------------------------------------------------------- responses
ExpectingJson == "400 Expecting JSON"
NoValid == "400 No valid annotations"
FailedWrite == "500 Failed to write CSV"
Ok == "200 ok"
Unhandled == "500 Internal Server Error"

\* ---------------------------------------------------------- save_annotations
\* mutant of Receive: write_rows is called whatever the number of rows
Receive_NoEmptyCheck(r, is_json, b) ==
    /\ pc[r] = "idle"
    /\ IF ~is_json
       THEN /\ resp' = [resp EXCEPT ![r] = ExpectingJson]
            /\ pc' = [pc EXCEPT ![r] = "done"]
            /\ UNCHANGED <<body, rows>>
       ELSE LET res == format_annotations(OrEmpty(b)) IN
            /\ body' = [body EXCEPT ![r] = b]
            /\ IF res.exc # "none"
               THEN /\ resp' = [resp EXCEPT ![r] = Unhandled]
                    /\ pc' = [pc EXCEPT ![r] = "done"]
                    /\ UNCHANGED rows
               ELSE /\ rows' = [rows EXCEPT ![r] = res.rows]
                    /\ pc' = [pc EXCEPT ![r] = "lock"]
                    /\ UNCHANGED resp
    /\ UNCHANGED <<fvars, new_file, line, part, exc, LOCK, exists, file, author>>

\* from the arrival of the request to the call of write_rows
Receive(r, is_json, b) ==
    /\ pc[r] = "idle"
    /\ IF ~is_json
       THEN /\ resp' = [resp EXCEPT ![r] = ExpectingJson]
            /\ pc' = [pc EXCEPT ![r] = "done"]
            /\ UNCHANGED <<body, rows>>
       ELSE LET res == format_annotations(OrEmpty(b)) IN
            /\ body' = [body EXCEPT ![r] = b]
            /\ IF res.exc # "none"
               THEN /\ resp' = [resp EXCEPT ![r] = Unhandled]
                    /\ pc' = [pc EXCEPT ![r] = "done"]
                    /\ UNCHANGED rows
               ELSE IF res.rows = <<>>
               THEN /\ resp' = [resp EXCEPT ![r] = NoValid]
                    /\ pc' = [pc EXCEPT ![r] = "done"]
                    /\ UNCHANGED rows
               ELSE /\ rows' = [rows EXCEPT ![r] = res.rows]
                    /\ pc' = [pc EXCEPT ![r] = "lock"]
                    /\ UNCHANGED resp
    /\ UNCHANGED <<fvars, new_file, line, part, exc, LOCK, exists, file, author>>

\* mutant of Respond: the OSError is swallowed and the request answered as a success
Respond_Swallow(r) ==
    /\ pc[r] \in {"returned", "raised"}
    /\ resp' = [resp EXCEPT ![r] = Ok]
    /\ pc' = [pc EXCEPT ![r] = "done"]
    /\ UNCHANGED <<fvars, body, rows, new_file, line, part, exc, LOCK, exists, file, author>>

\* the return of write_rows, or the OSError it raised
Respond(r) ==
    /\ pc[r] \in {"returned", "raised"}
    /\ resp' = [resp EXCEPT ![r] = IF pc[r] = "raised" THEN FailedWrite ELSE Ok]
    /\ pc' = [pc EXCEPT ![r] = "done"]
    /\ UNCHANGED <<fvars, body, rows, new_file, line, part, exc, LOCK, exists, file, author>>

\* ----------------------------------------------------------------- write_rows
\* mutant of Acquire: the critical section is entered without waiting for the lock
Acquire_NoWait(r) ==
    /\ pc[r] = "lock"
    /\ LOCK' = r
    /\ pc' = [pc EXCEPT ![r] = "exists"]
    /\ UNCHANGED <<fvars, body, rows, new_file, line, part, exc, resp, exists, file, author>>

\* with LOCK: (enter)
Acquire(r) ==
    /\ pc[r] = "lock"
    /\ LOCK = 0
    /\ LOCK' = r
    /\ pc' = [pc EXCEPT ![r] = "exists"]
    /\ UNCHANGED <<fvars, body, rows, new_file, line, part, exc, resp, exists, file, author>>

\* new_file = not CSV_PATH.exists()
CheckExists(r) ==
    /\ pc[r] = "exists"
    /\ new_file' = [new_file EXCEPT ![r] = ~exists]
    /\ pc' = [pc EXCEPT ![r] = "mkdir"]
    /\ UNCHANGED <<fvars, body, rows, line, part, exc, resp, LOCK, exists, file, author>>

\* an OSError leaves the statement: the exception propagates to the exit of `with LOCK`
Raise(r, to) ==
    /\ exc' = [exc EXCEPT ![r] = TRUE]
    /\ pc' = [pc EXCEPT ![r] = to]

\* CSV_PATH.parent.mkdir(parents=True, exist_ok=True)
Mkdir(r, ok) ==
    /\ pc[r] = "mkdir"
    /\ IF ok THEN pc' = [pc EXCEPT ![r] = "open"] /\ UNCHANGED exc
             ELSE Raise(r, "unlock")
    /\ UNCHANGED <<fvars, body, rows, new_file, line, part, resp, LOCK, exists, file, author>>

\* CSV_PATH.open("a", newline=""): creates the file when missing
Open(r, ok) ==
    /\ pc[r] = "open"
    /\ IF ok
       THEN /\ exists' = TRUE
            /\ pc' = [pc EXCEPT ![r] = IF new_file[r] THEN "header" ELSE "rows"]
            /\ line' = [line EXCEPT ![r] = 1]
            /\ part' = [part EXCEPT ![r] = 1]
            /\ UNCHANGED exc
       ELSE /\ Raise(r, "unlock")
            /\ UNCHANGED <<exists, line, part>>
    /\ UNCHANGED <<fvars, body, rows, new_file, resp, LOCK, file, author>>

\* one chunk of a line reaches the end of the file (append mode)
AppendChunk(r, bytes) ==
    /\ file' = file \o Chunk(bytes, part[r])
    /\ author' = author \o [i \in 1..Len(Chunk(bytes, part[r])) |-> r]

\* if new_file: writer.writerow(CSV_HEADER)
WriteHeader(r, ok) ==
    /\ pc[r] = "header"
    /\ IF ok
       THEN /\ AppendChunk(r, CsvLine(CSV_HEADER))
            /\ IF part[r] < LineChunks
               THEN part' = [part EXCEPT ![r] = part[r] + 1] /\ UNCHANGED pc
               ELSE part' = [part EXCEPT ![r] = 1] /\ pc' = [pc EXCEPT ![r] = "rows"]
            /\ UNCHANGED exc
       ELSE /\ Raise(r, "close")
            /\ UNCHANGED <<part, file, author>>
    /\ UNCHANGED <<fvars, body, rows, new_file, line, resp, LOCK, exists>>

\* writer.writerows(rows)
WriteRow(r, ok) ==
    /\ pc[r] = "rows"
    /\ IF ok
       THEN /\ AppendChunk(r, CsvLine(rows[r][line[r]]))
            /\ IF part[r] < LineChunks
               THEN /\ part' = [part EXCEPT ![r] = part[r] + 1]
                    /\ UNCHANGED <<line, pc>>
               ELSE /\ part' = [part EXCEPT ![r] = 1]
                    /\ IF line[r] < Len(rows[r])
                       THEN line' = [line EXCEPT ![r] = line[r] + 1] /\ UNCHANGED pc
                       ELSE pc' = [pc EXCEPT ![r] = "close"] /\ UNCHANGED line
            /\ UNCHANGED exc
       ELSE /\ Raise(r, "close")
            /\ UNCHANGED <<line, part, file, author>>
    /\ UNCHANGED <<fvars, body, rows, new_file, resp, LOCK, exists>>

\* the exit of `with CSV_PATH.open(...) as f`, taken on return and on exception
Close(r) ==
    /\ pc[r] = "close"
    /\ pc' = [pc EXCEPT ![r] = "unlock"]
    /\ UNCHANGED <<fvars, body, rows, new_file, line, part, exc, resp, LOCK, exists, file, author>>

\* mutant of Release: the lock is released on the normal exit only
Release_OnReturnOnly(r) ==
    /\ pc[r] = "unlock"
    /\ LOCK' = IF exc[r] THEN LOCK ELSE 0
    /\ pc' = [pc EXCEPT ![r] = IF exc[r] THEN "raised" ELSE "returned"]
    /\ UNCHANGED <<fvars, body, rows, new_file, line, part, exc, resp, exists, file, author>>

\* the exit of `with LOCK`, taken on return and on exception
Release(r) ==
    /\ pc[r] = "unlock"
    /\ LOCK' = 0
    /\ pc' = [pc EXCEPT ![r] = IF exc[r] THEN "raised" ELSE "returned"]
    /\ UNCHANGED <<fvars, body, rows, new_file, line, part, exc, resp, exists, file, author>>

\* ------------------------------------------------------ the server (Spec)
Init ==
    /\ payload = ArrayBody
    /\ result = Pending
    /\ ServerInit

WriteStep(r) ==
    \/ Acquire(r)
    \/ CheckExists(r)
    \/ \E ok \in BOOLEAN : Mkdir(r, ok)
    \/ \E ok \in BOOLEAN : Open(r, ok)
    \/ \E ok \in BOOLEAN : WriteHeader(r, ok)
    \/ \E ok \in BOOLEAN : WriteRow(r, ok)
    \/ Close(r)
    \/ Release(r)

Next ==
    \E r \in Requests :
        \/ \E is_json \in BOOLEAN, b \in Bodies(r) : Receive(r, is_json, b)
        \/ WriteStep(r)
        \/ Respond(r)

Spec == Init /\ [][Next]_vars

\* every request thread that can take a step eventually takes one
FairSpec == Spec /\ \A r \in Requests : WF_vars(WriteStep(r) \/ Respond(r))

\* ------------------------------------------------ properties of the server
\* the requests that called write_rows
Writers == {r \in Requests : rows[r] # <<>>}

\* the bytes of the rows of request r, as one append writes them
RECURSIVE BatchFrom(_, _)
BatchFrom(r, i) ==
    IF i > Len(rows[r]) THEN <<>> ELSE CsvLine(rows[r][i]) \o BatchFrom(r, i + 1)

Batch(r) == BatchFrom(r, 1)

RECURSIVE Batches(_, _)
Batches(q, i) ==
    IF i > Len(q) THEN <<>> ELSE Batch(q[i]) \o Batches(q, i + 1)

Contains(f, b) == \E i \in 0..(Len(f) - Len(b)) : SubSeq(f, i + 1, i + Len(b)) = b

\* the lines of the file: the text before each line terminator, then what follows the last one
RECURSIVE LinesOf(_, _)
LinesOf(f, cur) ==
    IF f = <<>> THEN (IF cur = <<>> THEN <<>> ELSE <<cur>>)
    ELSE IF Head(f) = LineTerminator THEN <<cur>> \o LinesOf(Tail(f), <<>>)
    ELSE LinesOf(Tail(f), Append(cur, Head(f)))

HeaderText == <<"video_path", CSV_DELIMITER, "fm_item", CSV_DELIMITER, "times">>

AllReturned ==
    /\ \A r \in Requests : pc[r] \in {"returned", "done"}
    /\ \A r \in Writers : ~exc[r]

\* C1: once all the concurrent write_rows calls have returned, the file is
\* the header followed by the batches, each whole and unbroken, in some order.
C1_UnionContiguous ==
    AllReturned =>
        IF Writers = {} THEN file = <<>>
        ELSE \E q \in Orderings(Writers) : file = CsvLine(CSV_HEADER) \o Batches(q, 1)

\* all the requests wrote, one of them more than one row
C1_Witness ==
    /\ AllReturned
    /\ Writers = Requests
    /\ \E r \in Requests : Len(rows[r]) >= 2

\* C2: the file, once it exists, has exactly one header line, it is the
\* first line, and its bytes were written by a call that found the file
\* missing.  Stated for the states a reader of the file relies on: no
\* write_rows call is under way and some request has been answered 200.
C2_OneHeader ==
    exists /\ LOCK = 0 /\ (\E r \in Requests : resp[r] = Ok) =>
        LET L == LinesOf(file, <<>>) IN
        /\ Len(L) >= 1
        /\ L[1] = HeaderText
        /\ \A i \in 2..Len(L) : L[i] # HeaderText
        /\ \A i \in 1..Len(HeaderText) : new_file[author[i]]

ZeroRows(b) ==
    LET res == format_annotations(OrEmpty(b)) IN res.exc = "none" /\ res.rows = <<>>

\* C7: a request whose body gives zero rows is answered 400 `No valid
\* annotations` in the step that receives it, and that step leaves the lock
\* and the file as they were; the request never enters write_rows.
C7_ZeroRowsRejected ==
    /\ [](\A r \in Requests :
             body[r] # NoBody /\ ZeroRows(body[r]) =>
                 /\ pc[r] = "done"
                 /\ resp[r] = NoValid
                 /\ LOCK # r
                 /\ \A i \in 1..Len(author) : author[i] # r)
    /\ [][\A r \in Requests :
             body[r] = NoBody /\ body'[r] # NoBody /\ ZeroRows(body'[r]) =>
                 /\ LOCK' = LOCK
                 /\ exists' = exists
                 /\ file' = file]_vars

\* a request whose only entry was dropped has been rejected while another
\* request holds the lock in the middle of its append
C7_Witness ==
    \E r1, r2 \in Requests :
        /\ resp[r1] = NoValid /\ body[r1].annotations.items # <<>>
        /\ LOCK = r2 /\ file # <<>>

InWrite == {"exists", "mkdir", "open", "header", "rows", "close", "unlock"}

\* C9: a call between its existence check and the release holds the lock, so
\* at most one call is there; the file changes only in a step of the holder.
C9_MutualExclusion ==
    /\ [](/\ \A r \in Requests : pc[r] \in InWrite => LOCK = r
          /\ Cardinality({r \in Requests : pc[r] \in InWrite}) <= 1)
    /\ [][file' # file \/ exists' # exists =>
              /\ LOCK # 0
              /\ LOCK' = LOCK
              /\ pc'[LOCK] # pc[LOCK] \/ part'[LOCK] # part[LOCK]
              /\ \A r \in Requests \ {LOCK} : pc'[r] = pc[r]]_vars

\* one call is in the middle of a line while another waits for the lock
C9_Witness ==
    \E r1, r2 \in Requests :
        pc[r1] = "rows" /\ part[r1] > 1 /\ pc[r2] = "lock"

\* the positions of a call that has entered write_rows and is not answered yet
Unanswered == {"lock", "raised", "returned"} \cup InWrite

\* C10: a call that has returned or raised does not hold the lock, and under
\* fair scheduling the calls waiting for the lock all get it and complete:
\* from some point on no call is left waiting, writing or unanswered.
C10_LockReleased ==
    /\ [](\A r \in Requests : pc[r] \notin InWrite => LOCK # r)
    /\ <>[](\A r \in Requests : pc[r] \notin Unanswered)

\* a call holds the lock after another call raised
C10_Witness ==
    \E r1, r2 \in Requests :
        pc[r1] \in {"raised", "done"} /\ exc[r1] /\ LOCK = r2

====
